---- MODULE Spec2Model ----
(***************************************************************************)
(* Model of the semantic retrieval core of Paper-Reader-Tools:             *)
(* src/paper_reader_tools/vector_search.py, class VectorStore.             *)
(*                                                                         *)
(* The embeddings table is a sequence of rows kept in rowid order          *)
(* (paper_id is INTEGER PRIMARY KEY, hence the rowid).  The vector columns *)
(* hold JSON text, a sequence of characters that json.dumps writes digit   *)
(* by digit and json.loads parses.  Titles, contents and queries are       *)
(* sequences of character codes.  Vectors are sequences of integers, each  *)
(* counting quarters; a similarity score is the exact real                 *)
(* n / (m * sqrt(d))  or NaN.                                              *)
(***************************************************************************)
EXTENDS Bags, FiniteSets, Integers, Sequences, TLC

\* ---------------------------------------------------------------- bounds
MaxPaper == 2
MaxLimit == 2
MaxTime == 1
MaxOver == 3
MaxStride == 10
MaxLoads == 3
MaxTask == 2
MaxTag == 1
MaxCollection == 1
MaxSaved == 2
MaxCall == 2
MaxAdd == 3

PaperIds == 1..MaxPaper
Limits == 0..MaxLimit
Times == 0..MaxTime
TaskIds == 1..MaxTask
Tags == 1..MaxTag
CollectionIds == 1..MaxCollection
CallIds == 1..MaxCall

\* ------------------------------------------------------------------ text
SampleThreshold == 5000
SliceLen == 1500
HalfWindow == 750
Space == 32

\* Titles and queries: "", "a", "b".  Contents: "", "a".
Texts == {<<>>, <<97>>, <<98>>}
Contents == {<<>>, <<97>>}

Min(a, b) == IF a <= b THEN a ELSE b
Max(a, b) == IF a >= b THEN a ELSE b

\* Python slice s[i:j] with 0 <= i, j (0-based, j exclusive), clipped to s.
PySlice(s, i, j) == SubSeq(s, Min(i, Len(s)) + 1, Min(j, Len(s)))

\* The three slices joined without the separating spaces
ContentSampleJoined(content) ==
    IF Len(content) > SampleThreshold
    THEN PySlice(content, 0, SliceLen)
         \o PySlice(content, (Len(content) \div 2) - HalfWindow,
                             (Len(content) \div 2) + HalfWindow)
         \o PySlice(content, Len(content) - SliceLen, Len(content))
    ELSE content

\* content[:1500] + " " + content[len//2-750 : len//2+750] + " " + content[-1500:]
ContentSample(content) ==
    IF Len(content) > SampleThreshold
    THEN PySlice(content, 0, SliceLen) \o <<Space>>
         \o PySlice(content, (Len(content) \div 2) - HalfWindow,
                             (Len(content) \div 2) + HalfWindow)
         \o <<Space>>
         \o PySlice(content, Len(content) - SliceLen, Len(content))
    ELSE content

\* Long contents: lengths about the sampling threshold and about twice the
\* threshold, of characters a..z that repeat with a period set by stride.
LongLens ==
    {SampleThreshold + d : d \in (0 - MaxOver)..MaxOver}
        \cup {2 * SampleThreshold + d : d \in 0..MaxOver}

LongText(len, stride) == [i \in 1..len |-> 97 + ((i * stride) % 26)]

LongContents == {LongText(len, stride) : len \in LongLens, stride \in 1..MaxStride}

\* ------------------------------------------------------ embedding provider
\* The sentence-embedding model is an external library.  It is a
\* deterministic map from text to a vector of fixed dimension; the model
\* in use ends in a normalisation layer, so its outputs are never zero.
\* Only the direction of a vector matters to cosine similarity.
Directions == << <<1, 0>>, <<3, 4>>, <<-4, 3>> >>

Dim == Len(Directions[1])

\* The sum of the elements of a sequence of positive numbers (character
\* codes): the sequence read as the bag that holds i s[i] times
SumSeq(s) == BagCardinality(s)

\* An encoder whose output length depends on the text
EncodeRagged(text) ==
    SubSeq(Directions[(SumSeq(text) % Len(Directions)) + 1], 1,
           1 + (SumSeq(text) % 2))

Encode(text) == Directions[(SumSeq(text) % Len(Directions)) + 1]

\* ------------------------------------------------------------------ JSON
\* A component k of a vector stands for the float k / Unit: the floats of
\* the model are the multiples of 1/4, which float32 and float64 hold
\* exactly, so that tolist() changes no value.  JSON text is a sequence of
\* characters.
Unit == 4

Digits == <<"0", "1", "2", "3", "4", "5", "6", "7", "8", "9">>

IsDigit(ch) == \E d \in 1..10 : Digits[d] = ch

DigitValue(ch) == (CHOOSE d \in 1..10 : Digits[d] = ch) - 1

Abs(x) == IF x < 0 THEN 0 - x ELSE x

\* num / den rounded to the nearest integer, halves to the even one
RoundHalfEven(num, den) ==
    LET q == num \div den
        r == num % den
    IN IF 2 * r > den THEN q + 1
       ELSE IF 2 * r < den THEN q
       ELSE IF q % 2 = 0 THEN q ELSE q + 1

\* The decimal digits of a natural number
RECURSIVE NatText(_)
NatText(n) ==
    IF n < 10 THEN <<Digits[n + 1]>>
    ELSE Append(NatText(n \div 10), Digits[(n % 10) + 1])

\* The digits after the point of rest / Unit, 0 <= rest < Unit: the two
\* digits of rest * 100 / Unit without a trailing zero, one digit at least
FractionText(rest) ==
    LET hundredths == (rest * 100) \div Unit
    IN IF hundredths % 10 = 0 THEN <<Digits[(hundredths \div 10) + 1]>>
       ELSE <<Digits[(hundredths \div 10) + 1], Digits[(hundredths % 10) + 1]>>

\* float.__repr__, which json.dumps writes for a float: the shortest decimal
\* that float() reads back as the same float.  For a multiple of 1/4 that is
\* its exact expansion: 0.75, -1.0, 0.25, 0.0.
float_repr(x) ==
    (IF x < 0 THEN <<"-">> ELSE <<>>)
        \o NatText(Abs(x) \div Unit) \o <<".">> \o FractionText(Abs(x) % Unit)

\* repr(round(x)): the number written as the nearest integer
RoundedRepr(x) ==
    (IF x < 0 /\ RoundHalfEven(Abs(x), Unit) # 0 THEN <<"-">> ELSE <<>>)
        \o NatText(RoundHalfEven(Abs(x), Unit))

\* The items of a list joined by ", "
RECURSIVE JoinItems(_)
JoinItems(items) ==
    IF items = <<>> THEN <<>>
    ELSE IF Len(items) = 1 THEN items[1]
    ELSE items[1] \o <<",", " ">> \o JoinItems(Tail(items))

\* A serialisation that writes every number at a coarser precision
JsonDumpsRounded(vec) ==
    <<"[">> \o JoinItems([i \in 1..Len(vec) |-> RoundedRepr(vec[i])]) \o <<"]">>

\* json.dumps of a list of floats: [x1, x2, ...] with the repr of each
json_dumps(vec) ==
    <<"[">> \o JoinItems([i \in 1..Len(vec) |-> float_repr(vec[i])]) \o <<"]">>

\* Leading and trailing spaces removed
RECURSIVE Strip(_)
Strip(s) ==
    IF s = <<>> THEN s
    ELSE IF Head(s) = " " THEN Strip(Tail(s))
    ELSE IF s[Len(s)] = " " THEN Strip(SubSeq(s, 1, Len(s) - 1))
    ELSE s

\* The pieces of s between its commas
RECURSIVE SplitItems(_)
SplitItems(s) ==
    IF \A i \in 1..Len(s) : s[i] # ","
    THEN <<s>>
    ELSE LET at == CHOOSE i \in 1..Len(s) :
                       s[i] = "," /\ \A j \in 1..(i - 1) : s[j] # ","
         IN <<SubSeq(s, 1, at - 1)>> \o SplitItems(SubSeq(s, at + 1, Len(s)))

\* The natural number a sequence of digits writes
RECURSIVE NatOf(_)
NatOf(digits) ==
    IF digits = <<>> THEN 0
    ELSE NatOf(SubSeq(digits, 1, Len(digits) - 1)) * 10
            + DigitValue(digits[Len(digits)])

RECURSIVE Power10(_)
Power10(k) == IF k = 0 THEN 1 ELSE 10 * Power10(k - 1)

\* A JSON number without exponent: -? (0 | [1-9][0-9]*) (. [0-9]+)?  and the
\* float that float() makes of it, the float nearest to the decimal.
ParseNumber(s) ==
    LET body == IF s # <<>> /\ s[1] = "-" THEN Tail(s) ELSE s
        dot == IF \E i \in 1..Len(body) : body[i] = "."
               THEN CHOOSE i \in 1..Len(body) :
                       body[i] = "." /\ \A j \in 1..(i - 1) : body[j] # "."
               ELSE 0
        whole == IF dot = 0 THEN body ELSE SubSeq(body, 1, dot - 1)
        frac == IF dot = 0 THEN <<>> ELSE SubSeq(body, dot + 1, Len(body))
        valid == /\ whole # <<>>
                 /\ \A i \in 1..Len(whole) : IsDigit(whole[i])
                 /\ Len(whole) > 1 => whole[1] # "0"
                 /\ dot # 0 => frac # <<>>
                 /\ \A i \in 1..Len(frac) : IsDigit(frac[i])
        size == NatOf(whole) * Unit
                   + RoundHalfEven(NatOf(frac) * Unit, Power10(Len(frac)))
    IN IF ~valid THEN [ok |-> FALSE, val |-> 0]
       ELSE [ok |-> TRUE,
             val |-> IF s[1] = "-" THEN 0 - size ELSE size]

\* json.loads restricted to arrays of numbers: [ok |-> FALSE] stands for
\* JSONDecodeError.
json_loads(text) ==
    LET n == Len(text)
        inner == Strip(SubSeq(text, 2, n - 1))
        items == SplitItems(inner)
        nums == [i \in 1..Len(items) |-> ParseNumber(Strip(items[i]))]
    IN IF n < 2 \/ text[1] # "[" \/ text[n] # "]"
       THEN [ok |-> FALSE, val |-> <<>>]
       ELSE IF inner = <<>> THEN [ok |-> TRUE, val |-> <<>>]
       ELSE IF \E i \in 1..Len(nums) : ~nums[i].ok
       THEN [ok |-> FALSE, val |-> <<>>]
       ELSE [ok |-> TRUE, val |-> [i \in 1..Len(nums) |-> nums[i].val]]

\* json_loads of the texts that json_dumps writes for the vectors of the
\* encoder and for the empty vector, each parsed once
Loaded ==
    [text \in {json_dumps(v) : v \in {<<>>} \cup {Directions[i] : i \in 1..Len(Directions)}}
        |-> json_loads(text)]

\* np.array(json.loads(col)) if col else np.array([])
LoadVector(col) ==
    IF col = <<>> THEN [ok |-> TRUE, val |-> <<>>]
    ELSE IF col \in DOMAIN Loaded THEN Loaded[col]
    ELSE json_loads(col)

\* --------------------------------------------------------------- scoring
\* A score is  [kind |-> "num", n, m, d]  meaning n / (m * sqrt(d)) with
\* m > 0 and d > 0,  [kind |-> "nan"]  for a floating-point NaN, or
\* [kind |-> "raise"]  when computing it raised an exception.
Real(n, m, d) == [kind |-> "num", n |-> n, m |-> m, d |-> d]
NaN == [kind |-> "nan", n |-> 0, m |-> 1, d |-> 1]
Raise == [kind |-> "raise", n |-> 0, m |-> 1, d |-> 1]
Zero == Real(0, 1, 1)

RECURSIVE Dot(_, _)
Dot(a, b) == IF a = <<>> THEN 0 ELSE Head(a) * Head(b) + Dot(Tail(a), Tail(b))

\* a*sqrt(x) < b*sqrt(y) for integers a, b and x, y > 0
SurdLess(a, x, b, y) ==
    IF a < 0 /\ b >= 0 THEN TRUE
    ELSE IF a >= 0 /\ b < 0 THEN FALSE
    ELSE IF a >= 0 THEN a * a * x < b * b * y
    ELSE a * a * x > b * b * y

\* x < y on floats: false when either side is NaN
Less(x, y) ==
    /\ x.kind = "num"
    /\ y.kind = "num"
    /\ SurdLess(x.n * y.m, y.d, y.n * x.m, x.d)

\* np.dot(a, b) / (np.linalg.norm(a) * np.linalg.norm(b)): np.dot raises on
\* operands of different length; 0.0 / 0.0 is NaN (a warning, no exception).
_cosine_similarity(a, b) ==
    IF Len(a) # Len(b) THEN Raise
    ELSE IF Dot(a, a) * Dot(b, b) = 0 THEN NaN
    ELSE Real(Dot(a, b), 1, Dot(a, a) * Dot(b, b))

\* x * 1.5
TimesWeight(x) == IF x.kind = "num" THEN Real(3 * x.n, 2 * x.m, x.d) ELSE x

\* Python's max(a, b): b if b > a, else a
PyMax(a, b) == IF Less(a, b) THEN b ELSE a

\* The integer root of a perfect square (every norm of the model is an integer)
IntRoot(d) == CHOOSE r \in 0..d : r * r = d

\* title_score + content_score in place of the maximum
CombineSum(title_score, content_score) ==
    IF title_score.kind # "num" \/ content_score.kind # "num" THEN NaN
    ELSE LET tm == title_score.m * IntRoot(title_score.d)
             cm == content_score.m * IntRoot(content_score.d)
         IN Real(title_score.n * cm + content_score.n * tm, tm * cm, 1)

\* score = max(title_score, content_score)
Combine(title_score, content_score) == PyMax(title_score, content_score)

\* title_score: 0, or cosine * 1.5 when the title vector is not empty
TitleScore(query_vector, title_vector) ==
    IF Len(title_vector) > 0
    THEN TimesWeight(_cosine_similarity(query_vector, title_vector))
    ELSE Zero

\* content_score: 0, or the cosine when the content vector is not empty
ContentScore(query_vector, content_vector) ==
    IF Len(content_vector) > 0
    THEN _cosine_similarity(query_vector, content_vector)
    ELSE Zero

\* One pass of the scoring loop over a row: (paper_id, score), or a raise
\* from json.loads or from np.dot.
ScoreRow(query_vector, row) ==
    LET t == LoadVector(row.title_vector)
        c == LoadVector(row.content_vector)
    IN IF ~t.ok \/ ~c.ok THEN [paper_id |-> row.paper_id, score |-> Raise]
       ELSE LET ts == TitleScore(query_vector, t.val)
                cs == ContentScore(query_vector, c.val)
            IN IF ts.kind = "raise" \/ cs.kind = "raise"
               THEN [paper_id |-> row.paper_id, score |-> Raise]
               ELSE [paper_id |-> row.paper_id, score |-> Combine(ts, cs)]

\* --------------------------------------------------------------- sorting
RECURSIVE Reverse(_)
Reverse(s) == IF s = <<>> THEN <<>> ELSE Append(Reverse(Tail(s)), Head(s))

\* The order list.sort compares keys in: key(x) < key(y)
KeyLess(x, y) == Less(x.score, y.score)

\* count_run: length of the run at the start of s and whether it descends
CountRun(s) ==
    LET n == Len(s)
        desc == n >= 2 /\ KeyLess(s[2], s[1])
        Cont(i) == IF desc THEN KeyLess(s[i], s[i - 1])
                           ELSE ~KeyLess(s[i], s[i - 1])
    IN IF n <= 1 THEN [n |-> n, desc |-> FALSE]
       ELSE [n |-> CHOOSE k \in 2..n :
                      /\ \A i \in 3..k : Cont(i)
                      /\ (k = n \/ ~Cont(k + 1)),
             desc |-> desc]

\* binarysort's search: where pivot goes in the sorted prefix (0-based)
RECURSIVE BinarySearch(_, _, _, _)
BinarySearch(prefix, pivot, l, r) ==
    IF l >= r THEN l
    ELSE LET p == l + ((r - l) \div 2)
         IN IF KeyLess(pivot, prefix[p + 1])
            THEN BinarySearch(prefix, pivot, l, p)
            ELSE BinarySearch(prefix, pivot, p + 1, r)

\* binarysort: s[1..start] is sorted; insert the rest one by one
RECURSIVE BinarySort(_, _)
BinarySort(s, start) ==
    IF start >= Len(s) THEN s
    ELSE LET prefix == SubSeq(s, 1, start)
             pivot == s[start + 1]
             at == BinarySearch(prefix, pivot, 0, start)
         IN BinarySort(SubSeq(prefix, 1, at) \o <<pivot>>
                         \o SubSeq(prefix, at + 1, start)
                         \o SubSeq(s, start + 2, Len(s)),
                       start + 1)

\* list.sort on a list shorter than the minimum run: one counted run, then
\* binary insertion
ListSort(s) ==
    LET run == CountRun(s)
        first == IF run.desc
                 THEN Reverse(SubSeq(s, 1, run.n)) \o SubSeq(s, run.n + 1, Len(s))
                 ELSE s
    IN BinarySort(first, run.n)

\* results.sort(key=lambda x: x[1]) without reverse=True
SortAscending(results) == ListSort(results)

\* An ascending sort followed by a reversal: equal scores change places
SortThenReverse(results) == Reverse(ListSort(results))

\* results.sort(key=lambda x: x[1], reverse=True): reverse, sort, reverse
SortByScore(results) == Reverse(ListSort(Reverse(results)))

\* results[:limit + 1] in place of results[:limit]
TruncateOneMore(results, limit) ==
    SubSeq(results, 1, Min(limit + 1, Len(results)))

\* results[:limit]
Truncate(results, limit) ==
    IF limit >= 0 THEN SubSeq(results, 1, Min(limit, Len(results)))
    ELSE SubSeq(results, 1, Max(0, Len(results) + limit))

\* ------------------------------------------------------------- the table
\* One row of the embeddings table.
Row(paper_id, title_vector, content_vector, created_at) ==
    [paper_id |-> paper_id, title_vector |-> title_vector,
     content_vector |-> content_vector, created_at |-> created_at]

RowsOf(rows, paper_id) == SelectSeq(rows, LAMBDA r : r.paper_id = paper_id)

\* A plain INSERT into a table without the primary key in place of the
\* upsert: the row is added and nothing is removed.
InsertOnly(rows, row) ==
    SelectSeq(rows, LAMBDA r : r.paper_id <= row.paper_id) \o <<row>>
      \o SelectSeq(rows, LAMBDA r : r.paper_id > row.paper_id)

\* An upsert that merges in place of one that replaces: the stored vector is
\* kept where the new one is empty.
InsertOrMerge(rows, row) ==
    LET old == RowsOf(rows, row.paper_id)
        keep(new, prev) == IF new = json_dumps(<<>>) THEN prev ELSE new
        merged == IF old = <<>> THEN row
                  ELSE Row(row.paper_id,
                           keep(row.title_vector, old[1].title_vector),
                           keep(row.content_vector, old[1].content_vector),
                           row.created_at)
    IN SelectSeq(rows, LAMBDA r : r.paper_id < row.paper_id) \o <<merged>>
         \o SelectSeq(rows, LAMBDA r : r.paper_id > row.paper_id)

\* A write that empties the table before it inserts the new row
InsertAfterClear(rows, row) == <<row>>

\* INSERT OR REPLACE INTO embeddings (paper_id, title_vector, content_vector):
\* the row with the same primary key is deleted, the new row is inserted
\* with created_at defaulting to CURRENT_TIMESTAMP; rows stay in rowid order.
InsertOrReplace(rows, row) ==
    SelectSeq(rows, LAMBDA r : r.paper_id < row.paper_id) \o <<row>>
      \o SelectSeq(rows, LAMBDA r : r.paper_id > row.paper_id)

\* ------------------------------------------------------------ operations
\* What goes wrong inside a call: nothing; the encoder raises; a statement
\* on the open connection (execute, fetchall) raises; conn.commit() raises
\* after the statement has run (the busy timeout passes while another
\* connection is inside a read).
IndexFaults == {"none", "encode", "storage", "commit"}
SearchFaults == {"none", "encode", "storage"}

\* self.model.encode(text): raises when the model is None or encoding fails
EncodeRaises(loaded, fault) == ~loaded \/ fault \in {"encode", "both"}

\* cursor.execute, conn.commit or fetchall raises
StatementRaises(fault) == fault \in {"storage", "both", "commit"}

\* The try block of add_embedding with every text handed to the encoder,
\* the empty ones too
TryAddEmbeddingEncodeAll(rows, loaded, paper_id, title, content, now, fault) ==
    IF EncodeRaises(loaded, fault)
    THEN [exc |-> TRUE, rows |-> rows, open |-> 0]
    ELSE IF StatementRaises(fault)
    THEN [exc |-> TRUE, rows |-> rows, open |-> 1]
    ELSE [exc |-> FALSE, open |-> 0,
          rows |-> InsertOrReplace(rows,
                       Row(paper_id, json_dumps(Encode(title)),
                           json_dumps(Encode(ContentSample(content))), now))]

\* The try block of add_embedding: [exc, rows, open].  exc: an exception
\* left it.  open: connections it opened and did not close; conn.close() is
\* reached only when no statement raises.
TryAddEmbedding(rows, loaded, paper_id, title, content, now, fault) ==
    LET content_sample == ContentSample(content)
        encodes == title # <<>> \/ content_sample # <<>>
        title_vector == IF title # <<>> THEN Encode(title) ELSE <<>>
        content_vector == IF content_sample # <<>> THEN Encode(content_sample)
                          ELSE <<>>
    IN IF encodes /\ EncodeRaises(loaded, fault)
       THEN [exc |-> TRUE, rows |-> rows, open |-> 0]
       ELSE IF StatementRaises(fault)
       THEN [exc |-> TRUE, rows |-> rows, open |-> 1]
       ELSE [exc |-> FALSE, open |-> 0,
             rows |-> InsertOrReplace(rows,
                          Row(paper_id, json_dumps(title_vector),
                              json_dumps(content_vector), now))]

\* add_embedding without its availability check
AddEmbeddingUnguarded(rows, enabled, loaded, paper_id, title, content, now, fault) ==
    LET t == TryAddEmbedding(rows, loaded, paper_id, title, content, now, fault)
    IN [ok |-> ~t.exc, raised |-> FALSE, rows |-> t.rows, open |-> t.open]

\* add_embedding: [ok, raised, rows, open]
add_embedding(rows, enabled, loaded, paper_id, title, content, now, fault) ==
    IF ~enabled \/ ~loaded
    THEN [ok |-> FALSE, raised |-> FALSE, rows |-> rows, open |-> 0]
    ELSE LET t == TryAddEmbedding(rows, loaded, paper_id, title, content, now, fault)
         IN [ok |-> ~t.exc, raised |-> FALSE, rows |-> t.rows, open |-> t.open]

\* The scoring loop: one (paper_id, score) per fetched row, in scan order
RECURSIVE ScoreRows(_, _)
ScoreRows(query_vector, rows) ==
    IF rows = <<>> THEN <<>>
    ELSE <<ScoreRow(query_vector, Head(rows))>>
           \o ScoreRows(query_vector, Tail(rows))

\* [paper_id for paper_id, _ in results]
RECURSIVE PaperIdsOf(_)
PaperIdsOf(results) ==
    IF results = <<>> THEN <<>>
    ELSE <<Head(results).paper_id>> \o PaperIdsOf(Tail(results))

\* The end of the try block of search: the raise of a row aborts the loop;
\* otherwise sort, cut and project.  scores is the list `results` as the
\* scoring loop leaves it, before the sort.  The connection is closed by
\* then.
RankScores(scores, limit) ==
    IF \E i \in 1..Len(scores) : scores[i].score.kind = "raise"
    THEN [exc |-> TRUE, scores |-> <<>>, result |-> <<>>, open |-> 0]
    ELSE [exc |-> FALSE, scores |-> scores, open |-> 0,
          result |-> PaperIdsOf(Truncate(SortByScore(scores), limit))]

\* search from the fetched rows on: nothing to rank, or the scoring loop,
\* the sort and the cut
RankRows(rows, query_vector, limit) ==
    IF rows = <<>>
    THEN [exc |-> FALSE, scores |-> <<>>, result |-> <<>>, open |-> 0]
    ELSE RankScores(ScoreRows(query_vector, rows), limit)

\* The try block of search: [exc, scores, result, open].  exc: an exception
\* left it.  open: connections it opened and did not close; conn.close()
\* follows fetchall and precedes the scoring loop.
TrySearch(rows, loaded, query, limit, fault) ==
    IF EncodeRaises(loaded, fault)
    THEN [exc |-> TRUE, scores |-> <<>>, result |-> <<>>, open |-> 0]
    ELSE IF StatementRaises(fault)
    THEN [exc |-> TRUE, scores |-> <<>>, result |-> <<>>, open |-> 1]
    ELSE RankRows(rows, Encode(query), limit)

\* search without its except clause
SearchUncaught(rows, enabled, loaded, query, limit, fault) ==
    IF ~enabled \/ ~loaded
    THEN [result |-> <<>>, raised |-> FALSE, scores |-> <<>>, open |-> 0]
    ELSE LET t == TrySearch(rows, loaded, query, limit, fault)
         IN [result |-> t.result, raised |-> t.exc, scores |-> t.scores,
             open |-> t.open]

\* search that ranks the table as it was before its newest row was written
SearchStale(rows, enabled, loaded, query, limit, fault) ==
    IF ~enabled \/ ~loaded
    THEN [result |-> <<>>, raised |-> FALSE, scores |-> <<>>, open |-> 0]
    ELSE LET t == TrySearch(SubSeq(rows, 1, Len(rows) - 1), loaded, query,
                            limit, fault)
         IN [result |-> t.result, raised |-> FALSE, scores |-> t.scores,
             open |-> t.open]

\* search: [result, raised, scores, open]
search(rows, enabled, loaded, query, limit, fault) ==
    IF ~enabled \/ ~loaded
    THEN [result |-> <<>>, raised |-> FALSE, scores |-> <<>>, open |-> 0]
    ELSE LET t == TrySearch(rows, loaded, query, limit, fault)
         IN [result |-> t.result, raised |-> FALSE, scores |-> t.scores,
             open |-> t.open]

\* ----------------------------------------------------------------- state
VARIABLES
    VECTORS_ENABLED,   \* the sentence-transformers import succeeded
    model_loaded,      \* self.model is not None
    embeddings,        \* the rows of the embeddings table, in rowid order
    clock,             \* CURRENT_TIMESTAMP
    ret,               \* the last call: its arguments and its outcome; for
                       \* index, the row it found for its paper_id; the
                       \* connections it opened and left open
    pending,           \* the write transaction an add_embedding call has
                       \* open on its connection, <<>> when there is none
    load_attempts,     \* calls of SentenceTransformer(...) in this process
    table_exists,      \* the database file has the embeddings table
    task_status,       \* server.task_status: task id -> status record
    task_pc,           \* where each scheduled background task stands and
                       \* the task_id it was given
    papers,            \* ids of the rows of table papers
    paper_seq,         \* the AUTOINCREMENT sequence of table papers
    paper_tags,        \* rows of table paper_tags: <<paper_id, tag>>
    collections,       \* ids of the rows of table collections
    collection_seq,    \* the AUTOINCREMENT sequence of table collections
    collection_papers, \* rows of table collection_papers:
                       \* <<collection_id, paper_id>>
    calls,             \* add_embedding calls running on threads: where
                       \* each stands and the vectors it holds
    adding             \* the add_paper_to_collection calls that are running,
                       \* a bag: the SELECT each has passed and its arguments

\* The state of the vector store
storeVars == <<VECTORS_ENABLED, model_loaded, embeddings, clock, ret, pending,
               load_attempts, table_exists>>

\* The state of the API server and of the relational store, and the calls
\* in flight
appVars == <<task_status, task_pc, papers, paper_seq, paper_tags, collections,
             collection_seq, collection_papers, calls, adding>>

vars == <<storeVars, appVars>>

\* A background task that is not scheduled
NoWrite == [at |-> "idle", paper_id |-> 0, title_vector |-> <<>>,
            content_vector |-> <<>>, ok |-> FALSE, overlapped |-> FALSE]
\* No add_paper_to_collection call is running.
NotAdding == EmptyBag
\* failed: "tags" once the tag suggestion of the task has failed
Idle == [at |-> "idle", key |-> 0, tags |-> {}, failed |-> "none"]
\* A background task that has returned holds nothing.
Returned == [at |-> "done", key |-> 0, tags |-> {}, failed |-> "none"]

NoCall ==
    [op |-> "none", paper_id |-> 0, title |-> <<>>, content |-> <<>>,
     query |-> <<>>, limit |-> 0, fault |-> "none", ok |-> FALSE,
     raised |-> FALSE, result |-> <<>>, scores |-> <<>>, prior |-> <<>>,
     sample |-> <<>>, seen |-> <<>>, leaked |-> 0, locked |-> FALSE]

\* VectorStore.__init__: the table exists and is empty; the model is loaded
\* only if the import succeeded, and loading may fail.
Init ==
    /\ VECTORS_ENABLED \in BOOLEAN
    /\ model_loaded \in BOOLEAN
    /\ model_loaded => VECTORS_ENABLED
    /\ embeddings = <<>>
    /\ clock = 0
    /\ ret = NoCall
    /\ pending = <<>>
    /\ load_attempts = IF VECTORS_ENABLED THEN 1 ELSE 0
    /\ table_exists = TRUE
    /\ task_status = <<>>
    /\ task_pc = [t \in TaskIds |-> Idle]
    /\ papers = {}
    /\ paper_seq = 0
    /\ paper_tags = {}
    /\ collections = {}
    /\ collection_seq = 0
    /\ collection_papers = {}
    /\ calls = [c \in CallIds |-> NoWrite]
    /\ adding = NotAdding

Available == VECTORS_ENABLED /\ model_loaded

\* A statement on a database without the embeddings table raises
\* sqlite3.OperationalError (no such table), whatever else goes wrong.
Met(fault) ==
    IF table_exists THEN fault
    ELSE IF fault = "encode" THEN "both"
    ELSE "storage"

\* The connection of an add_embedding call keeps every other connection
\* out of the file while its commit waits for a reader to finish, and after
\* its commit has raised: the call returns without closing the connection,
\* which keeps its transaction and its lock until the object is freed.
LockHeld(txn) == txn # <<>> /\ txn[1].stage \in {"committing", "abandoned"}

\* The transaction of an add_embedding call: the row its statement writes
OpenWrite(paper_id, title, content, stage) ==
    [row |-> Row(paper_id,
                 json_dumps(IF title # <<>> THEN Encode(title) ELSE <<>>),
                 json_dumps(IF ContentSample(content) # <<>>
                            THEN Encode(ContentSample(content)) ELSE <<>>),
                 clock),
     stage |-> stage, title |-> title, content |-> content]

\* The transaction of a connection left behind after its commit raised.  Its
\* row is never committed and no other connection reads it: what the
\* connection keeps for the rest of the program is its lock.
Abandoned ==
    [row |-> Row(0, <<>>, <<>>, 0), stage |-> "abandoned",
     title |-> <<>>, content |-> <<>>]

\* What a call meets.  While a connection left behind holds the lock, the
\* first statement of the call raises (database is locked): that is the
\* storage fault of the call, beside an encoder that raises.
Meets(fault) ==
    IF LockHeld(pending)
    THEN (IF fault = "encode" THEN "both" ELSE "storage")
    ELSE Met(fault)

\* add_embedding(paper_id, title, content).  A call whose commit raises
\* leaves its connection behind with the transaction open.
Index(paper_id, title, content, fault) ==
    /\ LockHeld(pending) => fault \in {"none", "encode"}
    /\ \E met \in {Meets(fault)} :
       \E out \in {add_embedding(embeddings, VECTORS_ENABLED, model_loaded,
                                 paper_id, title, content, clock, met)} :
          /\ embeddings' = out.rows
          /\ pending' = IF met = "commit" /\ out.open = 1
                        THEN <<Abandoned>>
                        ELSE pending
          /\ ret' = [NoCall EXCEPT !.op = "index", !.paper_id = paper_id,
                                   !.title = title, !.content = content,
                                   !.fault = IF LockHeld(pending) THEN met
                                             ELSE fault,
                                   !.locked = LockHeld(pending) /\ Available,
                                   !.ok = out.ok,
                                   !.raised = out.raised,
                                   !.prior = RowsOf(embeddings, paper_id),
                                   !.leaked = out.open]
          /\ UNCHANGED <<appVars, VECTORS_ENABLED, model_loaded, clock,
                         load_attempts, table_exists>>

\* search(query, limit).  The query is encoded before the connection is
\* opened.
Search(query, limit, fault) ==
    /\ LockHeld(pending) => fault \in {"none", "encode"}
    /\ \E met \in {IF LockHeld(pending) /\ fault = "encode" THEN "encode"
                    ELSE Meets(fault)} :
       \E out \in {search(embeddings, VECTORS_ENABLED, model_loaded,
                          query, limit, met)} :
          /\ ret' = [NoCall EXCEPT !.op = "search", !.query = query,
                                   !.limit = limit,
                                   !.fault = IF LockHeld(pending) THEN met
                                             ELSE fault,
                                   !.locked = LockHeld(pending) /\ Available,
                                   !.raised = out.raised, !.result = out.result,
                                   !.scores = out.scores, !.leaked = out.open]
          /\ UNCHANGED <<appVars, VECTORS_ENABLED, model_loaded, embeddings, clock,
                         pending, load_attempts, table_exists>>

\* The connection a failed call left behind is freed: its transaction is
\* rolled back and its lock released.
Collect ==
    /\ pending # <<>>
    /\ pending[1].stage = "abandoned"
    /\ pending' = <<>>
    /\ UNCHANGED <<appVars, VECTORS_ENABLED, model_loaded, embeddings, clock, ret,
                   load_attempts, table_exists>>

\* Time passes between calls.
Tick ==
    /\ clock < MaxTime
    /\ clock' = clock + 1
    /\ UNCHANGED <<appVars, VECTORS_ENABLED, model_loaded, embeddings, ret, pending,
                   load_attempts, table_exists>>

\* add_embedding(paper_id, "", content) on a long content, with the text it
\* hands to the encoder kept in ret: the content is sampled, the sample is
\* encoded and the row is written.  An unavailable store returns before it
\* samples.
Sample(paper_id, content) ==
    /\ Available
    /\ \E out \in {add_embedding(embeddings, VECTORS_ENABLED, model_loaded,
                                 paper_id, <<>>, content, clock, Meets("none"))} :
          /\ embeddings' = out.rows
          /\ ret' = [NoCall EXCEPT !.op = "sample", !.paper_id = paper_id,
                                   !.content = content,
                                   !.sample = ContentSample(content),
                                   !.fault = Meets("none"),
                                   !.locked = LockHeld(pending),
                                   !.ok = out.ok, !.raised = out.raised,
                                   !.leaked = out.open]
    /\ UNCHANGED <<appVars, VECTORS_ENABLED, model_loaded, clock, pending,
                   load_attempts, table_exists>>

\* The calls of the program, all within one second of the clock.
Next ==
    \/ \E p \in PaperIds, t \in Texts, c \in Contents, f \in IndexFaults :
          Index(p, t, c, f)
    \/ \E q \in Texts, l \in Limits, f \in SearchFaults : Search(q, l, f)
    \/ Collect

Spec == Init /\ [][Next]_vars

\* Another connection to the same database file puts a row into the table:
\* a title vector of norm zero, a content vector of norm zero, a truncated
\* column, a vector of another dimension, and two rows as index writes them.
ExternalRows ==
    { [title_vector |-> json_dumps(<<0, 0>>), content_vector |-> json_dumps(<<3, 4>>)],
      [title_vector |-> json_dumps(<<-4, 3>>), content_vector |-> json_dumps(<<0, 0>>)],
      [title_vector |-> SubSeq(json_dumps(<<1, 0>>), 1, 5),
       content_vector |-> json_dumps(<<3, 4>>)],
      [title_vector |-> json_dumps(<<3, 4>>), content_vector |-> json_dumps(<<1>>)],
      [title_vector |-> json_dumps(<<3, 4>>), content_vector |-> json_dumps(<<-4, 3>>)],
      [title_vector |-> json_dumps(<<>>), content_vector |-> json_dumps(<<>>)] }

ExternalWrite(paper_id, x) ==
    /\ embeddings' = InsertOrReplace(embeddings,
                         Row(paper_id, x.title_vector, x.content_vector, clock))
    /\ ret' = NoCall
    /\ UNCHANGED <<appVars, VECTORS_ENABLED, model_loaded, clock, pending,
                   load_attempts, table_exists>>

\* Searches of a table that other connections write.
NextShared ==
    \/ \E q \in Texts, l \in Limits, f \in SearchFaults : Search(q, l, f)
    \/ \E p \in PaperIds, x \in ExternalRows : ExternalWrite(p, x)

SpecShared == Init /\ [][NextShared]_vars

\* DELETE of the row that conflicts on the primary key
DeleteRow(rows, paper_id) == SelectSeq(rows, LAMBDA r : r.paper_id # paper_id)

\* The table as the writing connection holds it before its commit.  INSERT
\* OR REPLACE deletes the conflicting row, then inserts the new row.
Working(rows, txn) ==
    IF txn = <<>> THEN rows
    ELSE IF txn[1].stage = "deleted" THEN DeleteRow(rows, txn[1].row.paper_id)
    ELSE InsertOrReplace(rows, txn[1].row)

\* A SELECT that reads the uncommitted changes of the writing connection
VisibleDirty(rows, txn) == Working(rows, txn)

\* What the SELECT of search reads on its own connection: committed rows
Visible(rows, txn) == rows

\* add_embedding up to the start of its INSERT OR REPLACE: the vectors are
\* encoded, the connection is open, the conflicting row is deleted in the
\* transaction of the connection.  No call has returned since it began.
WriteBegin(paper_id, title, content) ==
    /\ Available
    /\ pending = <<>>
    /\ pending' = <<OpenWrite(paper_id, title, content, "deleted")>>
    /\ ret' = NoCall
    /\ UNCHANGED <<appVars, VECTORS_ENABLED, model_loaded, embeddings, clock,
                   load_attempts, table_exists>>

\* The statement inserts the new row in the transaction.
WriteInsert ==
    /\ pending # <<>>
    /\ pending[1].stage = "deleted"
    /\ pending' = << [pending[1] EXCEPT !.stage = "inserted"] >>
    /\ UNCHANGED <<appVars, VECTORS_ENABLED, model_loaded, embeddings, clock, ret,
                   load_attempts, table_exists>>

\* conn.commit() finds another connection inside a read and waits for it,
\* up to the busy timeout.
CommitWait ==
    /\ pending # <<>>
    /\ pending[1].stage = "inserted"
    /\ pending' = << [pending[1] EXCEPT !.stage = "committing"] >>
    /\ UNCHANGED <<appVars, VECTORS_ENABLED, model_loaded, embeddings, clock, ret,
                   load_attempts, table_exists>>

\* conn.commit(), conn.close(), return True
WriteCommit ==
    /\ pending # <<>>
    /\ pending[1].stage \in {"inserted", "committing"}
    /\ embeddings' = Working(embeddings, pending)
    /\ pending' = <<>>
    /\ ret' = [NoCall EXCEPT !.op = "index", !.paper_id = pending[1].row.paper_id,
                             !.title = pending[1].title,
                             !.content = pending[1].content, !.ok = TRUE,
                             !.prior = RowsOf(embeddings, pending[1].row.paper_id)]
    /\ UNCHANGED <<appVars, VECTORS_ENABLED, model_loaded, clock, load_attempts,
                   table_exists>>

\* The statement or the commit raises: add_embedding returns False and its
\* connection is not closed.  After a raise of the statement the connection
\* holds no lock; after a raise of the commit its transaction stays open.
WriteAbort ==
    /\ pending # <<>>
    /\ pending[1].stage \in {"deleted", "inserted", "committing"}
    /\ pending' = IF pending[1].stage = "deleted" THEN <<>>
                  ELSE <<Abandoned>>
    /\ ret' = [NoCall EXCEPT !.op = "index", !.paper_id = pending[1].row.paper_id,
                             !.title = pending[1].title,
                             !.content = pending[1].content,
                             !.fault = IF pending[1].stage = "deleted"
                                       THEN "storage" ELSE "commit",
                             !.prior = RowsOf(embeddings, pending[1].row.paper_id),
                             !.leaked = 1]
    /\ UNCHANGED <<appVars, VECTORS_ENABLED, model_loaded, embeddings, clock,
                   load_attempts, table_exists>>

\* add_embedding on another thread while the write is open: its statement
\* cannot take the write lock, raises, and the call returns False with its
\* connection not closed.
WriteLocked(paper_id, title, content) ==
    /\ Available
    /\ pending # <<>>
    /\ ret' = [NoCall EXCEPT !.op = "index", !.paper_id = paper_id,
                             !.title = title, !.content = content,
                             !.fault = "storage",
                             !.locked = LockHeld(pending),
                             !.prior = RowsOf(embeddings, paper_id),
                             !.leaked = 1]
    /\ UNCHANGED <<appVars, VECTORS_ENABLED, model_loaded, embeddings, clock, pending,
                   load_attempts, table_exists>>

\* search on another thread, its SELECT running while a write is open.  When
\* the writing connection keeps readers out the SELECT raises and the search
\* returns [] with its connection not closed.
Scan(query, limit) ==
    \E fault \in {IF LockHeld(pending) THEN "storage" ELSE "none"} :
    \E seen \in {IF LockHeld(pending) THEN <<>> ELSE Visible(embeddings, pending)} :
       \E out \in {search(seen, VECTORS_ENABLED, model_loaded, query, limit, fault)} :
          /\ ret' = [NoCall EXCEPT !.op = "search", !.query = query,
                                   !.limit = limit, !.fault = fault,
                                   !.locked = LockHeld(pending),
                                   !.raised = out.raised,
                                   !.result = out.result, !.scores = out.scores,
                                   !.seen = seen, !.leaked = out.open]
          /\ UNCHANGED <<appVars, VECTORS_ENABLED, model_loaded, embeddings, clock, pending,
                         load_attempts, table_exists>>

\* An add_embedding call in steps, and other calls at any point of it.
NextConcurrent ==
    \/ \E p \in PaperIds, t \in Texts, c \in Contents : WriteBegin(p, t, c)
    \/ WriteInsert
    \/ CommitWait
    \/ WriteCommit
    \/ WriteAbort
    \/ Collect
    \/ \E p \in PaperIds, t \in Texts, c \in Contents : WriteLocked(p, t, c)
    \/ \E q \in Texts : Scan(q, MaxLimit)

SpecConcurrent == Init /\ [][NextConcurrent]_vars

\* ------------------------------------------------------ concurrent writers
\* A call is in flight from its entry to its return.
InFlight(c) == calls[c].at \in {"encoded", "written"}

\* A statement that writes the two vectors column by column, keeping the
\* stored content vector of a row that exists
CommittedByColumn(rows, call) ==
    LET old == RowsOf(rows, call.paper_id)
    IN InsertOrReplace(rows,
          Row(call.paper_id, call.title_vector,
              IF old = <<>> THEN call.content_vector ELSE old[1].content_vector,
              clock))

\* The table after the commit of the call's INSERT OR REPLACE: one statement
\* carrying paper_id and both vectors
Committed(rows, call) ==
    InsertOrReplace(rows,
       Row(call.paper_id, call.title_vector, call.content_vector, clock))

\* add_embedding on one thread up to sqlite3.connect: both vectors are
\* encoded from the arguments of this call and held in its locals.  Each
\* thread makes one call.
CallEncode(c, paper_id, title, content) ==
    /\ Available
    /\ table_exists
    /\ calls[c].at = "idle"
    /\ calls' = [d \in CallIds |->
          IF d = c
          THEN [at |-> "encoded", paper_id |-> paper_id,
                title_vector |-> json_dumps(IF title # <<>> THEN Encode(title)
                                            ELSE <<>>),
                content_vector |-> json_dumps(IF ContentSample(content) # <<>>
                                              THEN Encode(ContentSample(content))
                                              ELSE <<>>),
                ok |-> FALSE,
                overlapped |-> \E e \in CallIds \ {c} : InFlight(e)]
          ELSE [calls[d] EXCEPT !.overlapped = @ \/ InFlight(d)]]
    /\ UNCHANGED <<storeVars, task_status, task_pc, papers, paper_seq, paper_tags,
                   collections, collection_seq, collection_papers, adding>>

\* cursor.execute(INSERT OR REPLACE ...): the connection takes the write lock
\* of the database file, which one connection holds at a time, and the
\* statement runs in its transaction.
CallExecute(c) ==
    /\ calls[c].at = "encoded"
    /\ \A e \in CallIds \ {c} : calls[e].at # "written"
    /\ calls' = [calls EXCEPT ![c].at = "written"]
    /\ UNCHANGED <<storeVars, task_status, task_pc, papers, paper_seq, paper_tags,
                   collections, collection_seq, collection_papers, adding>>

\* cursor.execute while another connection holds the write lock for longer
\* than the busy timeout: OperationalError (database is locked), the except
\* clause returns False.
CallLocked(c) ==
    /\ calls[c].at = "encoded"
    /\ \E e \in CallIds \ {c} : calls[e].at = "written"
    /\ calls' = [calls EXCEPT ![c].at = "returned", ![c].ok = FALSE]
    /\ UNCHANGED <<storeVars, task_status, task_pc, papers, paper_seq, paper_tags,
                   collections, collection_seq, collection_papers, adding>>

\* conn.commit(), conn.close(), return True
CallCommit(c) ==
    /\ calls[c].at = "written"
    /\ embeddings' = Committed(embeddings, calls[c])
    /\ calls' = [calls EXCEPT ![c].at = "returned", ![c].ok = TRUE]
    /\ UNCHANGED <<VECTORS_ENABLED, model_loaded, clock, ret, pending,
                   load_attempts, table_exists, task_status, task_pc, papers,
                   paper_seq, paper_tags, collections, collection_seq, collection_papers,
                   adding>>

\* add_embedding calls on several threads of one process.
NextWriters ==
    \/ \E c \in CallIds, p \in PaperIds, t \in Texts, x \in Contents :
          CallEncode(c, p, t, x)
    \/ \E c \in CallIds : CallExecute(c)
    \/ \E c \in CallIds : CallLocked(c)
    \/ \E c \in CallIds : CallCommit(c)

SpecWriters == Init /\ [][NextWriters]_vars

\* CREATE TABLE embeddings after DROP TABLE IF EXISTS
CreateTablesAfresh(exists, rows, locked) ==
    [exists |-> exists \/ ~locked, rows |-> <<>>, raised |-> locked,
     open |-> IF locked THEN 1 ELSE 0]

\* _create_tables: connect, CREATE TABLE IF NOT EXISTS embeddings, commit,
\* close, none of it inside a try.  [exists, rows, raised, open]: the
\* statement does nothing, and does not raise, where the table exists.
\* locked: another connection holds the lock of the file for longer than
\* the busy timeout; the statement raises OperationalError, nothing is
\* created and the connection is not closed.
_create_tables(exists, rows, locked) ==
    [exists |-> exists \/ ~locked, rows |-> IF exists THEN rows ELSE <<>>,
     raised |-> locked, open |-> IF locked THEN 1 ELSE 0]

\* What goes wrong in a constructor before the model is loaded: nothing;
\* os.makedirs raises (db_path has no directory part); the file is locked.
ConstructFaults == {"none", "makedirs", "locked"}

\* VectorStore(db_path) once more in the same process: the table is set up
\* and, if the import succeeded, the model is loaded for the new object,
\* which the calls that follow use.  load_ok: SentenceTransformer(...) does
\* not raise.  When os.makedirs or _create_tables raises, __init__ raises:
\* no object is made, no load is tried, and the process is left with the
\* store it had.  While a connection left behind holds the lock of the
\* file, CREATE TABLE raises.
Construct(load_ok, fault) ==
    /\ load_attempts < MaxLoads
    /\ LockHeld(pending) => fault # "none"
    /\ \E out \in {IF fault = "makedirs"
                    THEN [exists |-> table_exists, rows |-> embeddings,
                          raised |-> TRUE, open |-> 0]
                    ELSE _create_tables(table_exists, embeddings,
                                        fault = "locked")} :
          /\ table_exists' = out.exists
          /\ embeddings' = out.rows
          /\ ret' = [NoCall EXCEPT !.op = "construct", !.fault = fault,
                                   !.ok = (~out.raised /\ VECTORS_ENABLED
                                           /\ load_ok),
                                   !.prior = embeddings, !.raised = out.raised,
                                   !.leaked = out.open]
          /\ model_loaded' = IF out.raised THEN model_loaded
                             ELSE (VECTORS_ENABLED /\ load_ok)
          /\ load_attempts' = IF VECTORS_ENABLED /\ ~out.raised
                              THEN load_attempts + 1
                              ELSE load_attempts
    /\ UNCHANGED <<appVars, VECTORS_ENABLED, clock, pending>>

\* The database file is removed, or another connection drops the table.
DropTable ==
    /\ table_exists
    /\ table_exists' = FALSE
    /\ embeddings' = <<>>
    /\ ret' = NoCall
    /\ UNCHANGED <<appVars, VECTORS_ENABLED, model_loaded, clock, pending, load_attempts>>

\* A process that constructs stores and calls them, on a database file that
\* can lose its table.  Papers are indexed by their titles.
NextProcess ==
    \/ \E ok \in BOOLEAN, f \in ConstructFaults : Construct(ok, f)
    \/ DropTable
    \/ \E p \in PaperIds, t \in Texts, f \in IndexFaults : Index(p, t, <<>>, f)
    \/ \E q \in Texts, f \in SearchFaults : Search(q, MaxLimit, f)
    \/ Collect

SpecProcess == Init /\ [][NextProcess]_vars

\* ------------------------------------------------- background processing
\* None for the optional arguments of update_task_status
NoProgress == -1
NoPaper == 0
NoError == "None"

\* update_task_status: the dict after the call.  A key that was never set
\* holds the None of its argument.
update_task_status(ts, task_id, status, progress, paper_id, error) ==
    IF task_id \in DOMAIN ts
    THEN [ts EXCEPT ![task_id] =
             [status |-> status,
              progress |-> IF progress # NoProgress THEN progress ELSE @.progress,
              paper_id |-> IF paper_id # NoPaper THEN paper_id ELSE @.paper_id,
              error |-> IF error # NoError THEN error ELSE @.error]]
    ELSE ts

\* task_status[task_id] = {"status": "processing", "progress": 0}
Registered(ts, task_id) ==
    [t \in (DOMAIN ts) \cup {task_id} |->
        IF t = task_id
        THEN [status |-> "processing", progress |-> 0, paper_id |-> NoPaper,
              error |-> NoError]
        ELSE ts[t]]

\* The progress written before the call of each stage
ProgressAt(stage) ==
    CASE stage = "download" -> 20
      [] stage = "extract" -> 30
      [] stage = "metadata" -> 40
      [] stage = "summarize" -> 60
      [] stage = "pdf" -> 80
      [] stage = "tags" -> 85
      [] stage = "save" -> 90

\* The entry of task_status that the background task r writes
KeyOf(r) == task_pc[r].key

\* The event loop is running: no task sits in a blocking call that does not
\* return.  Handlers and background tasks share the one loop of the server.
LoopRuns == \A t \in TaskIds : task_pc[t].at # "hung"

\* The background task moves on to the call of a stage.
Advance(r, stage) ==
    /\ task_status' = update_task_status(task_status, KeyOf(r), "processing",
                                         ProgressAt(stage), NoPaper, NoError)
    /\ task_pc' = [task_pc EXCEPT ![r].at = stage]

\* The outer except clause: the task ends as failed with the message of the
\* exception, here the name of the stage that raised.
Fail(r, stage) ==
    /\ task_status' = update_task_status(task_status, KeyOf(r), "failed",
                                         NoProgress, NoPaper, stage)
    /\ task_pc' = [task_pc EXCEPT ![r] = Returned]

\* POST /upload or POST /process-url, the r-th request: the entry of its
\* task_id is set, over whatever it held, and a background task is
\* scheduled.  task_id is a hash of the url or of the file name and time,
\* so a request can carry the task_id of an earlier one; ids are numbered
\* in order of first use.  tags: the tags of the request.
Register(r, task_id, is_url, tags) ==
    /\ LoopRuns
    /\ task_pc[r].at = "idle"
    /\ \A q \in TaskIds : q < r => task_pc[q].at # "idle"
    /\ task_id <= r
    /\ paper_seq < MaxSaved
    /\ task_status' = Registered(task_status, task_id)
    /\ task_pc' = [task_pc EXCEPT ![r] =
                      [at |-> IF is_url THEN "start_url" ELSE "start_file",
                       key |-> task_id, tags |-> tags, failed |-> "none"]]
    /\ UNCHANGED <<storeVars, papers, paper_seq, paper_tags, collections, collection_seq,
                   collection_papers, calls, adding>>

\* process_paper_background up to its first awaited call
Begin(r) ==
    /\ LoopRuns
    /\ task_pc[r].at \in {"start_url", "start_file"}
    /\ \E ts \in {update_task_status(task_status, KeyOf(r), "processing", 10,
                                      NoPaper, NoError)} :
          \E stage \in {IF task_pc[r].at = "start_url" THEN "download"
                          ELSE "extract"} :
             task_status' = update_task_status(ts, KeyOf(r), "processing",
                                               ProgressAt(stage), NoPaper, NoError)
             /\ task_pc' = [task_pc EXCEPT ![r].at = stage]
    /\ UNCHANGED <<storeVars, papers, paper_seq, paper_tags, collections, collection_seq,
                   collection_papers, calls, adding>>

\* One awaited call returns (ok) or raises: download_pdf, extract_pdf_text,
\* client.extract_metadata.
Stage(r, stage, next, ok) ==
    /\ LoopRuns
    /\ task_pc[r].at = stage
    /\ IF ok THEN Advance(r, next) ELSE Fail(r, stage)
    /\ UNCHANGED <<storeVars, papers, paper_seq, paper_tags, collections, collection_seq,
                   collection_papers, calls, adding>>

Download(r, ok) == Stage(r, "download", "extract", ok)

Extract(r, ok) == Stage(r, "extract", "metadata", ok)

Metadata(r, ok) == Stage(r, "metadata", "summarize", ok)

\* What client.summarize_text(all_text, "summary") does: it returns a
\* response, it raises, or it returns a response that extract_from_response
\* or len(summary) cannot read (candidates or text null: TypeError, which
\* extract_from_response does not catch).
SummaryOutcomes == {"returns", "raises", "unreadable"}

\* client.summarize_text, then progress 70 and extract_from_response, then
\* progress 80 and the call of generate_pdf
Summarize(r, outcome) ==
    /\ LoopRuns
    /\ task_pc[r].at = "summarize"
    /\ CASE outcome = "returns" -> Advance(r, "pdf")
         [] outcome = "raises" -> Fail(r, "summarize")
         [] outcome = "unreadable" ->
              /\ task_status' =
                    update_task_status(
                       update_task_status(task_status, KeyOf(r), "processing",
                                          70, NoPaper, NoError),
                       KeyOf(r), "failed", NoProgress, NoPaper, "response")
              /\ task_pc' = [task_pc EXCEPT ![r] = Returned]
    /\ UNCHANGED <<storeVars, papers, paper_seq, paper_tags, collections, collection_seq,
                   collection_papers, calls, adding>>

\* What generate_pdf does: it returns a path (of the PDF, or of the
\* markdown file when pandoc failed or ran over its 60 seconds); it raises
\* (the markdown file cannot be written, which is outside its try); or its
\* first pandoc run fails and the second, run with subprocess.run and no
\* timeout inside the coroutine, does not return.
PdfOutcomes == {"returns", "raises", "hangs"}

\* generate_pdf, then the tags step only for a request without tags.  A
\* pandoc run that does not return holds the event loop: the entry of the
\* task stays at processing with progress 80.
GeneratePdf(r, outcome) ==
    /\ LoopRuns
    /\ task_pc[r].at = "pdf"
    /\ CASE outcome = "returns" ->
              Advance(r, IF task_pc[r].tags = {} THEN "tags" ELSE "save")
         [] outcome = "raises" -> Fail(r, "pdf")
         [] outcome = "hangs" ->
              /\ task_pc' = [task_pc EXCEPT ![r].at = "hung"]
              /\ UNCHANGED task_status
    /\ UNCHANGED <<storeVars, papers, paper_seq, paper_tags, collections, collection_seq,
                   collection_papers, calls, adding>>

\* client.suggest_paper_tags: the tags it returns; when the request to the
\* LLM fails it returns none, and the task goes on
SuggestTags(r, tags, ok) ==
    /\ LoopRuns
    /\ task_pc[r].at = "tags"
    /\ ~ok => tags = {}
    /\ task_status' = update_task_status(task_status, KeyOf(r), "processing",
                                         ProgressAt("save"), NoPaper, NoError)
    /\ task_pc' = [task_pc EXCEPT ![r].at = "save", ![r].tags = tags,
                                  ![r].failed = IF ok THEN @ ELSE "tags"]
    /\ UNCHANGED <<storeVars, papers, paper_seq, paper_tags, collections, collection_seq,
                   collection_papers, calls, adding>>

\* repository.save_paper(paper) for a new paper: the row is inserted under
\* the next id of the sequence with its tags, or the call raises and is
\* rolled back.  Either way the task is marked complete.
Save(r, ok) ==
    /\ LoopRuns
    /\ task_pc[r].at = "save"
    /\ task_pc' = [task_pc EXCEPT ![r] = Returned]
    /\ IF ok
       THEN /\ paper_seq' = paper_seq + 1
            /\ papers' = papers \cup {paper_seq + 1}
            /\ paper_tags' = paper_tags
                   \cup {<<paper_seq + 1, tag>> : tag \in task_pc[r].tags}
            /\ task_status' = update_task_status(task_status, KeyOf(r),
                                                 "complete", 100,
                                                 paper_seq + 1, NoError)
       ELSE /\ task_status' = update_task_status(task_status, KeyOf(r),
                                                 "complete", 100,
                                                 NoPaper, NoError)
            /\ UNCHANGED <<papers, paper_seq, paper_tags>>
    /\ UNCHANGED <<storeVars, collections, collection_seq, collection_papers, calls, adding>>

\* The calls in which the task is suspended: the HTTP requests of the
\* download and of the LLM
Suspended == {"download", "metadata", "summarize", "tags"}

\* The task is cancelled while it is suspended (the server shuts down, or
\* the task that runs it is cancelled).  asyncio.CancelledError is not an
\* Exception: it passes both except clauses, the finally clause removes the
\* temporary files, and the entry of the task is left as it was.
Cancel(r) ==
    /\ LoopRuns
    /\ task_pc[r].at \in Suspended
    /\ task_pc' = [task_pc EXCEPT ![r] = Returned]
    /\ UNCHANGED <<storeVars, task_status, papers, paper_seq, paper_tags, collections,
                   collection_seq, collection_papers, calls, adding>>

\* The steps of the background task r
TaskStep(r) ==
    \/ Begin(r)
    \/ \E ok \in BOOLEAN : Download(r, ok)
    \/ \E ok \in BOOLEAN : Extract(r, ok)
    \/ \E ok \in BOOLEAN : Metadata(r, ok)
    \/ \E outcome \in SummaryOutcomes : Summarize(r, outcome)
    \/ \E outcome \in PdfOutcomes : GeneratePdf(r, outcome)
    \/ \E tags \in {{}, Tags}, ok \in BOOLEAN : SuggestTags(r, tags, ok)
    \/ \E ok \in BOOLEAN : Save(r, ok)

\* The API server: requests register tasks, background tasks run.  A
\* request comes without tags or with tags; the pipeline branches on that.
NextIngest ==
    \/ \E r \in TaskIds, k \in TaskIds, u \in BOOLEAN, tags \in {{}, Tags} :
          Register(r, k, u, tags)
    \/ \E r \in TaskIds : TaskStep(r)
    \/ \E r \in TaskIds : Cancel(r)

SpecIngest == Init /\ [][NextIngest]_vars

\* The server starts beside an available vector store, of which the
\* pipeline reads nothing.
InitIngest == Init /\ VECTORS_ENABLED /\ model_loaded

\* While the event loop runs, a task that can take a step takes one: the
\* HTTP requests end within the total timeout of their aiohttp session and
\* the first pandoc run within its 60 seconds, and the other calls of the
\* pipeline compute and return.  Nothing is promised of a loop that a call
\* holds, nor that a task is not cancelled.
FairIngest ==
    /\ InitIngest
    /\ [][NextIngest]_vars
    /\ \A t \in TaskIds : WF_vars(TaskStep(t))

\* ------------------------------------------------------------ the library
\* PRAGMA foreign_keys on a connection from sqlite3.connect: off unless the
\* connection turns it on, which no repository does.
foreign_keys == FALSE

\* FOREIGN KEY (paper_id) REFERENCES papers(id) ON DELETE CASCADE on
\* paper_tags: the rows that remain when paper_id is deleted from papers
PaperTagsAfterDelete(rows, paper_id) ==
    IF foreign_keys THEN {r \in rows : r[1] # paper_id} ELSE rows

\* The same clause on collection_papers
CollectionPapersAfterDelete(rows, paper_id) ==
    IF foreign_keys THEN {r \in rows : r[2] # paper_id} ELSE rows

\* The 'papers' list of get_collection(collection_id) and of the entry of
\* get_collections: SELECT paper_id FROM collection_papers WHERE
\* collection_id = ?, as a set
get_collection(rows, collection_id) ==
    {r[2] : r \in {x \in rows : x[1] = collection_id}}

\* PaperRepository.save_paper.  id: 0 for a paper without id, which is
\* inserted under the next id of the sequence; else the UPDATE branch, which
\* changes the rows of table papers with that id, if any.  A paper with
\* tags then has its paper_tags rows deleted and written again; twice: a
\* tag is given twice, the second INSERT breaks the primary key of
\* paper_tags, the transaction is rolled back and the call raises.
SavePaper(id, tags, twice) ==
    /\ id = 0 => paper_seq < MaxSaved
    /\ \E paper_id \in {IF id = 0 THEN paper_seq + 1 ELSE id} :
          IF tags # {} /\ twice
          THEN /\ ret' = [NoCall EXCEPT !.op = "save_paper", !.raised = TRUE]
               /\ UNCHANGED <<papers, paper_seq, paper_tags>>
          ELSE /\ paper_seq' = IF id = 0 THEN paper_seq + 1 ELSE paper_seq
               /\ papers' = IF id = 0 THEN papers \cup {paper_id} ELSE papers
               /\ paper_tags' =
                     IF tags = {} THEN paper_tags
                     ELSE {x \in paper_tags : x[1] # paper_id}
                             \cup {<<paper_id, tag>> : tag \in tags}
               /\ ret' = [NoCall EXCEPT !.op = "save_paper",
                                        !.paper_id = paper_id, !.ok = TRUE]
    /\ UNCHANGED <<VECTORS_ENABLED, model_loaded, embeddings, clock, pending,
                   load_attempts, table_exists, task_status, task_pc, collections, collection_seq,
                   collection_papers, calls, adding>>

\* CollectionRepository.save_collection.  id: 0 for a new collection,
\* inserted under the next id of the sequence; else the UPDATE branch.  The
\* rows of the collection in collection_papers are deleted and the listed
\* papers inserted, existing or not; twice: a paper is listed twice, the
\* primary key is broken, the transaction is rolled back and 0 returned.
SaveCollection(id, listed, twice) ==
    /\ id = 0 => collection_seq < MaxCollection
    /\ \E collection_id \in {IF id = 0 THEN collection_seq + 1 ELSE id} :
          IF listed # {} /\ twice
          THEN /\ ret' = [NoCall EXCEPT !.op = "save_collection"]
               /\ UNCHANGED <<collections, collection_seq, collection_papers>>
          ELSE /\ collection_seq' = IF id = 0 THEN collection_seq + 1
                                    ELSE collection_seq
               /\ collections' = IF id = 0
                                 THEN collections \cup {collection_id}
                                 ELSE collections
               /\ collection_papers' =
                     {x \in collection_papers : x[1] # collection_id}
                        \cup {<<collection_id, p>> : p \in listed}
               /\ ret' = [NoCall EXCEPT !.op = "save_collection", !.ok = TRUE]
    /\ UNCHANGED <<VECTORS_ENABLED, model_loaded, embeddings, clock, pending,
                   load_attempts, table_exists, task_status, task_pc, papers, paper_seq,
                   paper_tags, calls, adding>>

\* CollectionRepository.add_paper_to_collection up to its first SELECT:
\* False when the collection does not exist.  The call reads and writes
\* outside a transaction, statement by statement, and other calls, of
\* add_paper_to_collection too, run on their connections between its
\* statements.  At most MaxAdd calls are between their statements.
AddPaperToCollection(collection_id, paper_id) ==
    /\ BagCardinality(adding) < MaxAdd
    /\ IF collection_id \in collections
       THEN /\ adding' = adding (+) SetToBag({[at |-> "collection",
                                               collection_id |-> collection_id,
                                               paper_id |-> paper_id]})
            /\ UNCHANGED ret
       ELSE /\ ret' = [NoCall EXCEPT !.op = "add_paper_to_collection",
                                     !.paper_id = paper_id]
            /\ UNCHANGED adding
    /\ UNCHANGED <<VECTORS_ENABLED, model_loaded, embeddings, clock, pending,
                   load_attempts, table_exists, task_status, task_pc, papers, paper_seq,
                   paper_tags, collections, collection_seq, collection_papers, calls>>

\* The second SELECT of a running call: False when the paper does not exist
AddPaperSelect(call) ==
    /\ BagIn(call, adding)
    /\ call.at = "collection"
    /\ IF call.paper_id \in papers
       THEN /\ adding' = (adding (-) SetToBag({call}))
                            (+) SetToBag({[call EXCEPT !.at = "paper"]})
            /\ UNCHANGED ret
       ELSE /\ ret' = [NoCall EXCEPT !.op = "add_paper_to_collection",
                                     !.paper_id = call.paper_id]
            /\ adding' = adding (-) SetToBag({call})
    /\ UNCHANGED <<VECTORS_ENABLED, model_loaded, embeddings, clock, pending,
                   load_attempts, table_exists, task_status, task_pc, papers, paper_seq,
                   paper_tags, collections, collection_seq, collection_papers, calls>>

\* INSERT OR IGNORE of the row of a running call, commit, True: no foreign
\* key is enforced, so the row is written whether or not the collection and
\* the paper are still there.
AddPaperInsert(call) ==
    /\ BagIn(call, adding)
    /\ call.at = "paper"
    /\ collection_papers' =
          collection_papers \cup {<<call.collection_id, call.paper_id>>}
    /\ ret' = [NoCall EXCEPT !.op = "add_paper_to_collection",
                             !.paper_id = call.paper_id, !.ok = TRUE]
    /\ adding' = adding (-) SetToBag({call})
    /\ UNCHANGED <<VECTORS_ENABLED, model_loaded, embeddings, clock, pending,
                   load_attempts, table_exists, task_status, task_pc, papers, paper_seq,
                   paper_tags, collections, collection_seq, calls>>

\* CollectionRepository.remove_paper_from_collection: the row is deleted,
\* True when there was one
RemovePaperFromCollection(collection_id, paper_id) ==
    /\ collection_papers' = collection_papers \ {<<collection_id, paper_id>>}
    /\ ret' = [NoCall EXCEPT !.op = "remove_paper_from_collection",
                             !.paper_id = paper_id,
                             !.ok = (<<collection_id, paper_id>>
                                        \in collection_papers)]
    /\ UNCHANGED <<VECTORS_ENABLED, model_loaded, embeddings, clock, pending,
                   load_attempts, table_exists, task_status, task_pc, papers, paper_seq,
                   paper_tags, collections, collection_seq, calls, adding>>

\* CollectionRepository.delete_collection: the rows of the collection in
\* collection_papers are deleted, then the collection; True when there was
\* one
DeleteCollection(collection_id) ==
    /\ collection_papers' = {x \in collection_papers : x[1] # collection_id}
    /\ collections' = collections \ {collection_id}
    /\ ret' = [NoCall EXCEPT !.op = "delete_collection",
                             !.ok = (collection_id \in collections)]
    /\ UNCHANGED <<VECTORS_ENABLED, model_loaded, embeddings, clock, pending,
                   load_attempts, table_exists, task_status, task_pc, papers, paper_seq,
                   paper_tags, collection_seq, calls, adding>>

\* PaperRepository.delete_paper: DELETE FROM papers WHERE id = ?, True when
\* a row was deleted
DeletePaper(paper_id) ==
    /\ papers' = papers \ {paper_id}
    /\ paper_tags' = IF paper_id \in papers
                     THEN PaperTagsAfterDelete(paper_tags, paper_id)
                     ELSE paper_tags
    /\ collection_papers' =
          IF paper_id \in papers
          THEN CollectionPapersAfterDelete(collection_papers, paper_id)
          ELSE collection_papers
    /\ ret' = [NoCall EXCEPT !.op = "delete_paper", !.paper_id = paper_id,
                             !.ok = (paper_id \in papers)]
    /\ UNCHANGED <<VECTORS_ENABLED, model_loaded, embeddings, clock, pending,
                   load_attempts, table_exists, task_status, task_pc, paper_seq, collections,
                   collection_seq, calls, adding>>

\* The ids a caller can pass for a paper
SavedIds == 1..MaxSaved

\* The calls on the paper library.
NextLibrary ==
    \/ \E id \in {0} \cup SavedIds, tags \in SUBSET Tags, twice \in BOOLEAN :
          SavePaper(id, tags, twice)
    \/ \E id \in {0} \cup CollectionIds, listed \in SUBSET SavedIds,
          twice \in BOOLEAN : SaveCollection(id, listed, twice)
    \/ \E c \in CollectionIds, p \in SavedIds : AddPaperToCollection(c, p)
    \/ \E call \in BagToSet(adding) : AddPaperSelect(call)
    \/ \E call \in BagToSet(adding) : AddPaperInsert(call)
    \/ \E c \in CollectionIds, p \in SavedIds : RemovePaperFromCollection(c, p)
    \/ \E c \in CollectionIds : DeleteCollection(c)
    \/ \E p \in SavedIds : DeletePaper(p)

SpecLibrary == Init /\ [][NextLibrary]_vars

\* add_embedding calls with long contents.
NextSample == \E content \in LongContents : Sample(1, content)

SpecSample == Init /\ [][NextSample]_vars

\* Index calls as time passes.
NextClock ==
    \/ \E p \in PaperIds, t \in Texts, c \in Contents, f \in IndexFaults :
          Index(p, t, c, f)
    \/ Tick
    \/ Collect

SpecClock == Init /\ [][NextClock]_vars

\* ---------------------------------------------------------------- claims
IsIndex == ret.op = "index"
IsSearch == ret.op = "search"

\* The vector index derives from a text: empty for empty text
VectorFor(text) == IF text = <<>> THEN <<>> ELSE Encode(text)

Decoded(col, vec) == LoadVector(col) = [ok |-> TRUE, val |-> vec]

\* C1: after a successful index(p, t2, c2) the table holds exactly one row
\* for p, and its title and content vectors are those of t2 and c2 alone:
\* empty where t2 or c2 is empty, whatever an earlier index(p, t1, c1) stored.
C1_UpsertReplaces ==
    (IsIndex /\ ret.ok) =>
        LET rs == RowsOf(embeddings, ret.paper_id)
        IN /\ Len(rs) = 1
           /\ Decoded(rs[1].title_vector, VectorFor(ret.title))
           /\ Decoded(rs[1].content_vector, VectorFor(ContentSample(ret.content)))

\* A second index of p succeeded with an empty title and an empty content
\* over a row whose vectors were both non-empty.
C1_Witness ==
    /\ IsIndex /\ ret.ok
    /\ ret.title = <<>> /\ ret.content = <<>>
    /\ ret.prior # <<>>
    /\ ret.prior[1].title_vector # json_dumps(<<>>)
    /\ ret.prior[1].content_vector # json_dumps(<<>>)

\* C2: in every reachable state no two rows of the table have the same
\* paper_id.
C2_AtMostOneRecord ==
    \A i, j \in 1..Len(embeddings) :
        i # j => embeddings[i].paper_id # embeddings[j].paper_id

\* Every paper is indexed and the last call indexed one of them again.
C2_Witness ==
    /\ IsIndex /\ ret.ok
    /\ ret.prior # <<>>
    /\ Len(embeddings) = MaxPaper

\* C3: with the provider unavailable, index returns failure and search
\* returns the empty list, for every input, and neither raises.
C3_UnavailableProvider ==
    ~Available =>
        /\ ~ret.raised
        /\ IsIndex => ~ret.ok
        /\ IsSearch => ret.result = <<>>

\* The import succeeded, the model did not load, and index was called with
\* nothing to encode and storage working.
C3_Witness ==
    /\ VECTORS_ENABLED /\ ~model_loaded
    /\ IsIndex /\ ret.fault = "none"
    /\ ret.title = <<>> /\ ret.content = <<>>

\* A search that ran with the provider working and storage working
CleanSearch == IsSearch /\ Available /\ ret.fault = "none"

StoredIds == {embeddings[i].paper_id : i \in 1..Len(embeddings)}

\* C4: with the provider available and no fault, for every limit >= 0 and a
\* table of n rows, search returns exactly min(limit, n) paper ids, all
\* distinct and each the paper_id of a stored row.
C4_LimitRespected ==
    (CleanSearch /\ ret.limit >= 0) =>
        /\ Len(ret.result) = Min(ret.limit, Len(embeddings))
        /\ \A i, j \in 1..Len(ret.result) : i # j => ret.result[i] # ret.result[j]
        /\ \A i \in 1..Len(ret.result) : ret.result[i] \in StoredIds

\* A search whose limit cut the list: more rows than the limit, limit > 0.
C4_Witness ==
    /\ CleanSearch
    /\ ret.limit > 0
    /\ Len(embeddings) > ret.limit
    /\ Len(ret.result) = ret.limit

\* The score the scoring loop gave a paper
ScoreOf(paper_id) ==
    ret.scores[CHOOSE i \in 1..Len(ret.scores) :
                   ret.scores[i].paper_id = paper_id].score

\* x >= y on numbers
AtLeast(x, y) == x.kind = "num" /\ y.kind = "num" /\ ~Less(x, y)

\* C5: every returned id has a score at least that of every id after it in
\* the list and of every stored row that was not returned.
C5_TopOfRanking ==
    CleanSearch =>
        \A i \in 1..Len(ret.result) :
            /\ \A j \in (i + 1)..Len(ret.result) :
                  AtLeast(ScoreOf(ret.result[i]), ScoreOf(ret.result[j]))
            /\ \A k \in 1..Len(ret.scores) :
                  (\A j \in 1..Len(ret.result) : ret.result[j] # ret.scores[k].paper_id)
                      => AtLeast(ScoreOf(ret.result[i]), ret.scores[k].score)

\* The one id returned is that of the later row, which outscores the
\* earlier row.
C5_Witness ==
    /\ CleanSearch
    /\ Len(ret.scores) = 2
    /\ Less(ret.scores[1].score, ret.scores[2].score)
    /\ ret.result = <<ret.scores[2].paper_id>>

\* dot(a, b) / (|a| * |b|), for vectors that are not zero
Cosine(a, b) == Real(Dot(a, b), 1, Dot(a, a) * Dot(b, b))

Same(x, y) == AtLeast(x, y) /\ AtLeast(y, x)

BothVectors(row) ==
    /\ LoadVector(row.title_vector).ok
    /\ LoadVector(row.content_vector).ok
    /\ LoadVector(row.title_vector).val # <<>>
    /\ LoadVector(row.content_vector).val # <<>>

\* 1.5 * cos(query, title_vector) and cos(query, content_vector) of a row
WeightedTitle(row) ==
    LET c == Cosine(Encode(ret.query), LoadVector(row.title_vector).val)
    IN Real(3 * c.n, 2 * c.m, c.d)

PlainContent(row) == Cosine(Encode(ret.query), LoadVector(row.content_vector).val)

\* C6: for a row whose two vectors are non-empty the score is
\* max(1.5 * cos(query, title_vector), cos(query, content_vector)): at least
\* both, and equal to one of them.
C6_MaxNotSum ==
    (CleanSearch /\ ret.scores # <<>>) =>
        \A i \in 1..Len(embeddings) :
            BothVectors(embeddings[i]) =>
                LET s == ret.scores[i].score
                    t == WeightedTitle(embeddings[i])
                    c == PlainContent(embeddings[i])
                IN /\ ret.scores[i].paper_id = embeddings[i].paper_id
                   /\ AtLeast(s, t) /\ AtLeast(s, c)
                   /\ (Same(s, t) \/ Same(s, c))

\* A row scored on its content, above its weighted title score, neither
\* being zero: the sum is another number.
C6_Witness ==
    /\ CleanSearch /\ ret.scores # <<>>
    /\ \E i \in 1..Len(embeddings) :
          /\ BothVectors(embeddings[i])
          /\ WeightedTitle(embeddings[i]).n # 0
          /\ PlainContent(embeddings[i]).n # 0
          /\ Less(WeightedTitle(embeddings[i]), PlainContent(embeddings[i]))
          /\ Same(ret.scores[i].score, PlainContent(embeddings[i]))

\* A row whose columns deserialize to vectors that are empty or of the
\* provider's dimension
WellFormed(row) ==
    /\ LoadVector(row.title_vector).ok
    /\ LoadVector(row.content_vector).ok
    /\ Len(LoadVector(row.title_vector).val) \in {0, Dim}
    /\ Len(LoadVector(row.content_vector).val) \in {0, Dim}

ZeroNorm(vec) == vec # <<>> /\ Dot(vec, vec) = 0

\* The cosine as the ranker is specified: 0 when either norm is zero
GuardedCosine(a, b) ==
    IF Dot(a, a) * Dot(b, b) = 0 THEN Zero ELSE Cosine(a, b)

\* The score of a row with every zero-norm vector contributing 0
GuardedScore(row) ==
    LET q == Encode(ret.query)
        t == LoadVector(row.title_vector).val
        c == LoadVector(row.content_vector).val
        g == GuardedCosine(q, t)
        ts == IF t = <<>> THEN Zero ELSE Real(3 * g.n, 2 * g.m, g.d)
        cs == IF c = <<>> THEN Zero ELSE GuardedCosine(q, c)
    IN IF Less(ts, cs) THEN cs ELSE ts

\* The score of a row on its vectors of non-zero norm alone: the weighted
\* title score where only the content vector has norm zero, and the reverse
OtherVectorScore(row) ==
    LET q == Encode(ret.query)
        t == LoadVector(row.title_vector).val
        c == LoadVector(row.content_vector).val
        g == GuardedCosine(q, t)
    IN IF ZeroNorm(c) /\ t # <<>> /\ ~ZeroNorm(t) THEN Real(3 * g.n, 2 * g.m, g.d)
       ELSE IF ZeroNorm(t) /\ c # <<>> /\ ~ZeroNorm(c) THEN GuardedCosine(q, c)
       ELSE GuardedScore(row)

\* C7: a stored vector of norm zero never makes ranking raise and counts as
\* score 0: the search completes and every row is scored on its other
\* vector (read either way: the maximum of that vector's score and 0, or
\* that vector's score alone).
C7_ZeroNormScoresZero ==
    (CleanSearch /\ embeddings # <<>>
       /\ \A i \in 1..Len(embeddings) : WellFormed(embeddings[i])) =>
        /\ ~ret.raised
        /\ Len(ret.scores) = Len(embeddings)
        /\ \A i \in 1..Len(embeddings) :
              \/ Same(ret.scores[i].score, GuardedScore(embeddings[i]))
              \/ Same(ret.scores[i].score, OtherVectorScore(embeddings[i]))

\* C8: search never raises, whatever fails inside it: it returns a list of
\* paper ids, and the empty list on a storage failure.
C8_SearchNeverRaises ==
    IsSearch =>
        /\ ~ret.raised
        /\ \A i \in 1..Len(ret.result) : ret.result[i] \in PaperIds
        /\ ret.fault = "storage" => ret.result = <<>>

\* A search with the provider and the storage working met a row that does
\* not deserialize, and returned.
C8_Witness ==
    /\ CleanSearch
    /\ \E i \in 1..Len(embeddings) : ~LoadVector(embeddings[i].title_vector).ok
    /\ ret.result = <<>>

\* C9: a storage failure during index is reported, not raised: the call
\* returns failure and leaves every row as it was, and a later index call
\* succeeds once storage works: with the provider available it returns
\* success when nothing outside the store fails in it, whatever call failed
\* before it and whatever that call left behind.
C9_IndexFailureReported ==
    [][ret'.op = "index" =>
          /\ ~ret'.raised
          /\ ret'.fault \in {"storage", "commit"} => ~ret'.ok
          /\ ~ret'.ok => embeddings' = embeddings
          /\ (Available /\ (\/ ret'.fault = "none"
                            \/ ret'.locked /\ ret'.fault = "storage"))
                => ret'.ok]_vars

\* C10: a malformed row is skipped during ranking: a search whose limit
\* covers the table still returns every well-formed row.
C10_MalformedSkipped ==
    (CleanSearch /\ ret.limit >= Len(embeddings)) =>
        \A i \in 1..Len(embeddings) :
            WellFormed(embeddings[i]) =>
                \E j \in 1..Len(ret.result) :
                    ret.result[j] = embeddings[i].paper_id

IsSample == ret.op = "sample"

\* Character i (from 1) of the three slices joined by single spaces, for a
\* content of more than 5000 characters with midpoint m = floor(len / 2)
SampleAt(content, i) ==
    LET len == Len(content)
        m == len \div 2
    IN IF i <= 1500 THEN content[i]
       ELSE IF i = 1501 THEN 32
       ELSE IF i <= 3001 THEN content[(m - 750) + (i - 1501)]
       ELSE IF i = 3002 THEN 32
       ELSE content[(len - 1500) + (i - 3002)]

\* C11: a content of at most 5000 characters is encoded unchanged; a longer
\* one is encoded as content[0:1500], a space, content[m-750:m+750], a space
\* and content[len-1500:len] in that order, 4502 characters in all.
C11_SamplingDeterministic ==
    IsSample =>
        IF Len(ret.content) <= 5000 THEN ret.sample = ret.content
        ELSE /\ Len(ret.sample) = 4502
             /\ \A i \in 1..4502 : ret.sample[i] = SampleAt(ret.content, i)

\* A content of 5001 characters was sampled, and the sample is not a prefix
\* of it.
C11_Witness ==
    /\ IsSample
    /\ Len(ret.content) = 5001
    /\ Len(ret.sample) < Len(ret.content)
    /\ ret.sample # SubSeq(ret.content, 1, Len(ret.sample))

\* C12: created_at is set when a paper_id is first indexed and is left as it
\* was by every later successful index of the same paper_id.
C12_CreatedAtKept ==
    (IsIndex /\ ret.ok /\ ret.prior # <<>>) =>
        \A i \in 1..Len(embeddings) :
            embeddings[i].paper_id = ret.paper_id =>
                embeddings[i].created_at = ret.prior[1].created_at

\* C13: a search that runs while an index call for p is in progress reads,
\* for every paper, the row as it was committed before the call or, for p,
\* the complete row the call writes: no row only where none was committed,
\* never one row's title vector with another's content vector.  A search
\* that the writing connection keeps out reads no row at all.
C13_UpsertAtomic ==
    [][ret'.op = "search" =>
          \/ /\ LockHeld(pending)
             /\ ret'.seen = <<>>
             /\ ret'.result = <<>>
          \/ /\ ~LockHeld(pending)
             /\ \A p \in PaperIds :
                   \/ RowsOf(ret'.seen, p) = RowsOf(embeddings, p)
                   \/ /\ pending # <<>>
                      /\ pending[1].row.paper_id = p
                      /\ RowsOf(ret'.seen, p) = <<pending[1].row>>]_vars

\* A search ran after the open write had deleted the old row of its paper
\* in its transaction; the new row differs from the old one in both
\* vectors, and the search read the old row.
C13_Witness ==
    /\ IsSearch
    /\ pending # <<>>
    /\ pending[1].stage = "deleted"
    /\ \E old \in {RowsOf(embeddings, pending[1].row.paper_id)} :
          /\ old # <<>>
          /\ old[1].title_vector # pending[1].row.title_vector
          /\ old[1].content_vector # pending[1].row.content_vector
          /\ RowsOf(ret.seen, pending[1].row.paper_id) = old

\* The vectors the provider returns for the texts of the model, and the
\* empty vector
ProviderVectors == {VectorFor(t) : t \in Texts}

\* C14: persistence of a vector round-trips exactly.  The text written for
\* any vector of the provider, the empty one included, parses to a vector of
\* the same length with the same component at every position.  In the
\* table, every stored column parses, to a vector of the provider, and is
\* the text of the vector it parses to; and the columns of the row that the
\* last successful index wrote parse to the vectors that call encoded.
C14_VectorRoundTrip ==
    /\ \A v \in ProviderVectors :
          LET w == LoadVector(json_dumps(v))
          IN /\ w.ok
             /\ Len(w.val) = Len(v)
             /\ \A k \in 1..Len(v) : w.val[k] = v[k]
    /\ \A i \in 1..Len(embeddings) :
          \A col \in {embeddings[i].title_vector, embeddings[i].content_vector} :
              /\ LoadVector(col).ok
              /\ LoadVector(col).val \in ProviderVectors
              /\ json_dumps(LoadVector(col).val) = col
    /\ (IsIndex /\ ret.ok) =>
          \A i \in 1..Len(embeddings) :
              embeddings[i].paper_id = ret.paper_id =>
                  /\ LoadVector(embeddings[i].title_vector).val = VectorFor(ret.title)
                  /\ LoadVector(embeddings[i].content_vector).val
                        = VectorFor(ContentSample(ret.content))

\* The table holds a row with an empty title vector and a content vector
\* with a component that is no whole number, and a row with an empty
\* content vector and a title vector with a negative component and one that
\* is no whole number.
C14_Witness ==
    /\ IsIndex /\ ret.ok
    /\ \E i, j \in 1..Len(embeddings) :
          /\ LoadVector(embeddings[i].title_vector).val = <<>>
          /\ \E k \in 1..Len(LoadVector(embeddings[i].content_vector).val) :
                LoadVector(embeddings[i].content_vector).val[k] % Unit # 0
          /\ LoadVector(embeddings[j].content_vector).val = <<>>
          /\ \E k, l \in 1..Len(LoadVector(embeddings[j].title_vector).val) :
                /\ LoadVector(embeddings[j].title_vector).val[k] < 0
                /\ LoadVector(embeddings[j].title_vector).val[l] % Unit # 0

\* C15: an empty stored vector contributes nothing to the score.  A row
\* with an empty content vector scores 1.5 * cos(query, title_vector), a row
\* with an empty title vector scores cos(query, content_vector), whatever
\* the sign, and a row with both empty scores 0.
C15_EmptyContributesNothing ==
    (CleanSearch /\ ret.scores # <<>>) =>
        \A i \in 1..Len(embeddings) :
            LET t == LoadVector(embeddings[i].title_vector).val
                c == LoadVector(embeddings[i].content_vector).val
                s == ret.scores[i].score
            IN /\ (t # <<>> /\ c = <<>>) => Same(s, WeightedTitle(embeddings[i]))
               /\ (t = <<>> /\ c # <<>>) => Same(s, PlainContent(embeddings[i]))
               /\ (t = <<>> /\ c = <<>>) => Same(s, Zero)

\* C16: the model is loaded at most once in the life of the process,
\* however many stores are constructed and whatever calls follow; a load
\* that failed is not tried again.
C16_LoadOncePerProcess == load_attempts <= 1

\* C17: when an index or a search call returns, every connection it opened
\* is closed, whether it completed or a statement failed between the open
\* and the close.
C17_ConnectionsReleased == (IsIndex \/ IsSearch) => ret.leaked = 0

\* C18: the table is created on first use.  After an index or a search call
\* with the provider available and no other fault the table exists, and the
\* index call has stored its row and returned success, also where the call
\* found no table.
C18_TableCreatedOnUse ==
    ((IsIndex \/ IsSearch) /\ Available /\ ret.fault = "none") =>
        /\ table_exists
        /\ IsIndex => (ret.ok /\ RowsOf(embeddings, ret.paper_id) # <<>>)

\* C19: setting up the schema again is harmless: constructing a store on a
\* database leaves every row of the table as it was, and where nothing
\* outside the store fails (the directory can be made, the file is not
\* locked) it does not raise and the table exists afterwards.
C19_SchemaSetupIdempotent ==
    ret.op = "construct" =>
        /\ embeddings = ret.prior
        /\ ret.fault = "none" => (~ret.raised /\ table_exists)

\* A store was constructed on a table that held a row for every paper.
C19_Witness ==
    /\ ret.op = "construct"
    /\ ret.fault = "none"
    /\ Len(ret.prior) = MaxPaper
    /\ load_attempts > 1

\* C21: every non-empty vector in the table has the dimension of the
\* provider, so the two vectors of a row have the same length whenever both
\* are non-empty.
C21_DimensionInvariant ==
    \A i \in 1..Len(embeddings) :
        LET t == LoadVector(embeddings[i].title_vector)
            c == LoadVector(embeddings[i].content_vector)
        IN /\ t.ok /\ c.ok
           /\ t.val # <<>> => Len(t.val) = Dim
           /\ c.val # <<>> => Len(c.val) = Dim
           /\ (t.val # <<>> /\ c.val # <<>>) => Len(t.val) = Len(c.val)

\* The table holds a row with two non-empty vectors that differ and a row
\* with an empty content vector.
C21_Witness ==
    \E i, j \in 1..Len(embeddings) :
        /\ LoadVector(embeddings[i].title_vector).val # <<>>
        /\ LoadVector(embeddings[i].content_vector).val # <<>>
        /\ embeddings[i].title_vector # embeddings[i].content_vector
        /\ LoadVector(embeddings[j].title_vector).val # <<>>
        /\ LoadVector(embeddings[j].content_vector).val = <<>>

\* The place of a paper in the scan
ScanPos(paper_id) ==
    CHOOSE i \in 1..Len(ret.scores) : ret.scores[i].paper_id = paper_id

\* Paper p ranks before paper q: the higher score, or the same score and
\* the earlier place in the scan
RanksBefore(p, q) ==
    \/ Less(ScoreOf(q), ScoreOf(p))
    \/ Same(ScoreOf(p), ScoreOf(q)) /\ ScanPos(p) < ScanPos(q)

\* C22: the result of a search is fixed by the rows, their scan order, the
\* query and the limit: it is the list in which every id ranks before the
\* ids after it and before every row left out, rows with equal scores in
\* their scan order.
C22_RankingDeterministic ==
    CleanSearch =>
        \A i \in 1..Len(ret.result) :
            /\ \A j \in (i + 1)..Len(ret.result) :
                  RanksBefore(ret.result[i], ret.result[j])
            /\ \A k \in 1..Len(ret.scores) :
                  (\A j \in 1..Len(ret.result) : ret.result[j] # ret.scores[k].paper_id)
                      => RanksBefore(ret.result[i], ret.scores[k].paper_id)

\* Two rows have the same score, not zero, and the limit cut the list
\* between them.
C22_Witness ==
    /\ CleanSearch
    /\ Len(ret.scores) = 2
    /\ Same(ret.scores[1].score, ret.scores[2].score)
    /\ ret.scores[1].score.n # 0
    /\ ret.result = <<ret.scores[1].paper_id>>

\* C23: with the provider unavailable no index call and no search call
\* changes the table: the rows and their vectors after the call are those
\* before it.
C23_UnavailableIsNoOp ==
    [][(~Available /\ ret'.op \in {"index", "search"}) =>
          embeddings' = embeddings]_vars

\* The store in use could not load its model; the table holds a row for
\* every paper; index was called with a title for a paper that has a row,
\* met no fault, and failed.
C23_Witness ==
    /\ VECTORS_ENABLED /\ ~model_loaded
    /\ IsIndex /\ ~ret.ok /\ ret.fault = "none"
    /\ ret.title # <<>>
    /\ ret.prior # <<>>
    /\ Len(embeddings) = MaxPaper

\* C24: with the provider available an empty title or an empty content is
\* stored as the empty vector and is not handed to the encoder: index
\* succeeds when nothing else fails, and with both empty it succeeds even
\* where the encoder would raise, leaving a row with two empty vectors.
C24_EmptyTextIndexed ==
    (IsIndex /\ Available) =>
        LET rs == RowsOf(embeddings, ret.paper_id)
            reached == \/ ret.fault = "none"
                       \/ ret.fault = "encode" /\ ret.title = <<>> /\ ret.content = <<>>
        IN (reached /\ (ret.title = <<>> \/ ret.content = <<>>)) =>
              /\ ret.ok
              /\ Len(rs) = 1
              /\ ret.title = <<>> => rs[1].title_vector = json_dumps(<<>>)
              /\ ret.content = <<>> => rs[1].content_vector = json_dumps(<<>>)

\* Index succeeded with an empty title and an empty content while the
\* encoder was failing.
C24_Witness ==
    /\ IsIndex /\ Available /\ ret.ok
    /\ ret.fault = "encode"
    /\ ret.title = <<>> /\ ret.content = <<>>
    /\ RowsOf(embeddings, ret.paper_id) # <<>>

\* C25: a search changes no row of the table, and it ranks the rows the
\* table holds when it is called: with the provider and the storage working
\* it scores every row of the table, each once and in scan order, and with a
\* limit that covers the table it returns every stored paper.
C25_SearchReadOnly ==
    [][ret'.op = "search" =>
          /\ embeddings' = embeddings
          /\ (Available /\ ret'.fault = "none") =>
                /\ PaperIdsOf(ret'.scores) = PaperIdsOf(embeddings)
                /\ ret'.limit >= Len(embeddings) =>
                      {ret'.result[i] : i \in 1..Len(ret'.result)} = StoredIds]_vars

\* A search over a full table returned every paper, the paper of the
\* highest id first.
C25_Witness ==
    /\ CleanSearch
    /\ Len(embeddings) = MaxPaper
    /\ Len(ret.result) = MaxPaper
    /\ ret.result[1] = MaxPaper

\* C26: when a task is reported complete with the id of the paper it saved
\* and the provider is available, the embeddings table holds a row for that
\* paper.
C26_SavedPaperIndexed ==
    \A t \in DOMAIN task_status :
        (/\ task_status[t].status = "complete"
         /\ task_status[t].paper_id # NoPaper
         /\ Available)
            => RowsOf(embeddings, task_status[t].paper_id) # <<>>

\* C27: once two index calls for the same paper that ran concurrently have
\* both returned, at least one of them with True, and no other call has
\* run, the table holds exactly one row for the paper, and its title vector
\* and content vector are the pair of one of the calls that returned True.
C27_ConcurrentIndexWhole ==
    \A c, d \in CallIds :
        (/\ c # d
         /\ calls[c].at = "returned" /\ calls[d].at = "returned"
         /\ calls[c].overlapped /\ calls[d].overlapped
         /\ calls[c].paper_id = calls[d].paper_id
         /\ calls[c].ok
         /\ \A e \in CallIds \ {c, d} : calls[e].at = "idle")
            => \E rows \in {RowsOf(embeddings, calls[c].paper_id)} :
                  /\ Len(rows) = 1
                  /\ \E e \in {c, d} :
                        /\ calls[e].ok
                        /\ rows[1].title_vector = calls[e].title_vector
                        /\ rows[1].content_vector = calls[e].content_vector

\* Two overlapping calls for one paper both returned True with vectors that
\* differ in both columns.
C27_Witness ==
    /\ calls[1].at = "returned" /\ calls[2].at = "returned"
    /\ calls[1].overlapped /\ calls[2].overlapped
    /\ calls[1].paper_id = calls[2].paper_id
    /\ calls[1].ok /\ calls[2].ok
    /\ calls[1].title_vector # calls[2].title_vector
    /\ calls[1].content_vector # calls[2].content_vector
    /\ Len(RowsOf(embeddings, calls[1].paper_id)) = 1

\* C28: an index call for paper p, whether it returns True or False, leaves
\* the rows of every other paper as they were: present or absent as before,
\* with the same vectors.
C28_IndexFrame ==
    [][ret'.op = "index" =>
          \A q \in PaperIds \ {ret'.paper_id} :
              RowsOf(embeddings', q) = RowsOf(embeddings, q)]_vars

\* An index call replaced the row of its paper while the table held the row
\* of another paper.
C28_Witness ==
    /\ IsIndex
    /\ ret.ok
    /\ ret.prior # <<>>
    /\ RowsOf(embeddings, ret.paper_id) # ret.prior
    /\ \E q \in PaperIds \ {ret.paper_id} : RowsOf(embeddings, q) # <<>>

\* C29: after delete_paper(p) has returned True, no row of paper_tags and no
\* row of collection_papers refers to p, and no collection lists p.
C29_DeleteCascades ==
    (ret.op = "delete_paper" /\ ret.ok) =>
        /\ \A r \in paper_tags : r[1] # ret.paper_id
        /\ \A r \in collection_papers : r[2] # ret.paper_id
        /\ \A c \in collections :
              ret.paper_id \notin get_collection(collection_papers, c)

\* With the requests the server gets, from some point on every entry is at
\* complete or failed and stays there: none is left at processing.
TasksEnd ==
    <>[](\A k \in DOMAIN task_status :
            task_status[k].status \in {"complete", "failed"})

\* The background task r returns in this step.
Ends(r) == task_pc[r].at # "done" /\ task_pc'[r].at = "done"

\* The calls whose exception reaches the outer except clause
FailingStages == {"download", "extract", "metadata", "summarize", "pdf"}

\* A task that returns leaves its entry at complete or failed, and a task
\* that returns from its save, saved or not, leaves it at complete with
\* progress 100.
SaveFailureCompletes ==
    \A r \in TaskIds :
        Ends(r) =>
            /\ task_status'[KeyOf(r)].status \in {"complete", "failed"}
            /\ task_pc[r].at = "save" =>
                  /\ task_status'[KeyOf(r)].status = "complete"
                  /\ task_status'[KeyOf(r)].progress = 100

\* A task that returns from a call that raised leaves its entry at failed
\* with the error of that call, or of the reading of the summary response.
StageFailureFails ==
    \A r \in TaskIds :
        (Ends(r) /\ task_pc[r].at \in FailingStages) =>
            /\ task_status'[KeyOf(r)].status = "failed"
            /\ task_status'[KeyOf(r)].error \in
                  {task_pc[r].at} \cup
                     (IF task_pc[r].at = "summarize" THEN {"response"} ELSE {})

\* C30: every registered task ends as complete or failed and is never left
\* at processing; a task in which the download, the extraction
\* or a request to the LLM (metadata, summary, tag suggestion) failed ends
\* as failed with an error message; a failure while saving ends in complete
\* with progress 100.
C30_EveryLLMFailureFails ==
    /\ TasksEnd
    /\ [][/\ SaveFailureCompletes
          /\ StageFailureFails
          /\ \A r \in TaskIds :
                (Ends(r) /\ task_pc[r].failed = "tags")
                   => /\ task_status'[KeyOf(r)].status = "failed"
                      /\ task_status'[KeyOf(r)].error # NoError]_vars

====
